---------------------------- MODULE Spec2Model ----------------------------
(***************************************************************************)
(* A model of tombflow's script decoder (pkg/script): the offset-indexed   *)
(* "multi-byte array" with its text view and word view, the gameflow       *)
(* instruction scan, joinLevels and the Read driver over a byte source.    *)
(*                                                                         *)
(* Go slices are modelled as TLA+ sequences; a Go index i (0-based) is the *)
(* TLA+ index i+1.  A Go runtime panic (index or slice bounds out of       *)
(* range) is the outcome "panic": nothing in the package recovers from it. *)
(* No function of the package returns an error value, so the outcome       *)
(* "error" (a failure reported to the caller) is never produced.           *)
(***************************************************************************)
EXTENDS Integers, Sequences, FiniteSets, TLC

VARIABLES
    chunk,      \* readSequenceArray: the word list being scanned
    scan,       \* readSequenceArray: the inner loop's state [i, seq, at, pc]
    m,          \* a multiByteArray [offsets, data]
    view,       \* the last call on m: [op, xor, before, out, res]
    jin,        \* joinLevels: its arguments [names, paths, chaps, flow, demos]
    jout,       \* joinLevels: [called, l]
    src,        \* Read: the byte source r, [bytes, pad]
    rd,         \* Read: the state of one run of Read
    fc          \* FormatCommand: one call [s, c, called, res, out]

vars == <<chunk, scan, m, view, jin, jout, src, rd, fc>>

---------------------------------------------------------------------------
(* Widths and basic helpers                                                *)

U16Mod == 65536

ByteMod == 256

Min(a, b) == IF a < b THEN a ELSE b

\* a Go slice as a sequence value: f itself, for any f with domain 1..n
AsSeq(f) == SubSeq(f, 1, Len(f))

\* s[from+1 .. to] : the Go slice s[from:to] (0-based, to exclusive)
Slice(s, from, to) == [j \in 1..(to - from) |-> s[from + j]]

RECURSIVE XorBits(_, _, _)
XorBits(a, b, n) ==
    IF n = 0 THEN 0
    ELSE (((a % 2) + (b % 2)) % 2) + 2 * XorBits(a \div 2, b \div 2, n - 1)

\* the Go operator ^ on two uint8
Xor(a, b) == XorBits(a, b, 8)

---------------------------------------------------------------------------
(* Opcodes (script.go:19-47) and the static has-argument table             *)

OpPicture == 0

OpListStart == 1

OpListEnd == 2

OpFmv == 3

OpLevel == 4

OpCine == 5

OpComplete == 6

OpDemo == 7

OpJumpToSequence == 8

OpEnd == 9

OpTrack == 10

OpSunset == 11

OpLoadPic == 12

OpDeadlyWater == 13

OpRemoveWeapons == 14

OpGameComplete == 15

OpCutAngle == 16

OpNoFloor == 17

OpStartInv == 18

OpStartAnim == 19

OpSecrets == 20

opcodeHasArgument ==
    << OpPicture, OpFmv, OpLevel, OpCine, OpDemo, OpJumpToSequence, OpTrack,
       OpLoadPic, OpCutAngle, OpNoFloor, OpStartInv, OpStartAnim, OpSecrets >>

\* a table that misses OpTrack
hasArg_NoTrack(o) ==
    \E k \in 1..Len(opcodeHasArgument) :
        opcodeHasArgument[k] = o /\ o # OpTrack

\* Opcode.hasArg: a linear search of opcodeHasArgument
hasArg(o) == \E k \in 1..Len(opcodeHasArgument) : opcodeHasArgument[k] = o

---------------------------------------------------------------------------
(* readSequenceArray, the per-chunk loop (script.go:369-383)               *)
(*   for i := 0; i < len(chunk); i++ {                                     *)
(*       typ := Opcode(chunk[i]); arg := uint16(0)                         *)
(*       if typ.hasArg() { i = i + 1; arg = chunk[i] }                     *)
(*       seq = append(seq, Command{Op: typ, Arg: arg}) }                   *)
(* st.i is the Go loop variable, st.seq the Sequence built so far, st.at   *)
(* the value of i at which each emitted Command's opcode was read.         *)


MaxWords == 4

\* words of a gameflow chunk: opcodes with and without an argument, and 42,
\* which is no opcode of the table
SeqWords == {OpListStart, OpLevel, OpEnd, OpTrack, 42}

SeqsUpTo(S, n) == UNION {[1..k -> S] : k \in 0..n}

ScanInit(c) ==
    [i |-> 0, seq |-> <<>>, at |-> <<>>,
     pc |-> IF 0 < Len(c) THEN "scan" ELSE "done"]

ScanEmit(c, st, typ, arg, last) ==
    [i   |-> last + 1,
     seq |-> Append(st.seq, [Op |-> typ, Arg |-> arg]),
     at  |-> Append(st.at, st.i),
     pc  |-> IF last + 1 < Len(c) THEN "scan" ELSE "done"]

\* the scan reads the argument but does not step over it
ScanStep_NoSkip(c, st) ==
    LET typ == c[st.i + 1]
    IN  IF hasArg(typ)
        THEN IF st.i + 1 >= Len(c)
             THEN [st EXCEPT !.i = st.i + 1, !.pc = "panic"]
             ELSE ScanEmit(c, st, typ, c[st.i + 2], st.i)
        ELSE ScanEmit(c, st, typ, 0, st.i)

\* one iteration of the loop body followed by i++ and the loop test
ScanStep(c, st) ==
    LET typ == c[st.i + 1]
    IN  IF hasArg(typ)
        THEN IF st.i + 1 >= Len(c)
             THEN [st EXCEPT !.i = st.i + 1, !.pc = "panic"]  \* chunk[len(chunk)]
             ELSE ScanEmit(c, st, typ, c[st.i + 2], st.i + 1)
        ELSE ScanEmit(c, st, typ, 0, st.i)

RECURSIVE ScanRun(_, _)
ScanRun(c, st) == IF st.pc = "scan" THEN ScanRun(c, ScanStep(c, st)) ELSE st

\* the whole loop over one chunk: [pc |-> "done" or "panic", seq |-> ...]
DecodeChunk(c) == ScanRun(c, ScanInit(c))

---------------------------------------------------------------------------
(* multiByteArray and its two views (script.go:289-343)                    *)
(* A Go slice expression a[low:high] faults unless low <= high <= cap(a),  *)
(* and a[low:] unless low <= len(a).  The blob comes from make([]uint8,    *)
(* size), so its capacity is its length.                                   *)

newMultiByteArray(offsets, data) == [offsets |-> offsets, data |-> data]

\* the iteration of a range loop over n offsets at which the first slice
\* expression faults, given the set of iterations whose bounds check fails;
\* n+1 when none does
FirstFault(n, bad) ==
    IF bad = {} THEN n + 1 ELSE CHOOSE i \in bad : \A j \in bad : i <= j

\* iteration i of Strings' loop (Go index i-1) over n offsets and a blob of
\* size bytes: may the slice be taken?
StringsSliceOK(offsets, n, size, i) ==
    IF i = n
    THEN offsets[i] <= size                               \* m.data[offset:]
    ELSE /\ offsets[i] <= offsets[i + 1]                  \* m.data[offset:to]
         /\ offsets[i + 1] <= size

\* the last record is cut at its own offset: the tail of the blob is lost
StringsTo_NoTail(offsets, n, size, i) ==
    IF i = n THEN offsets[i] ELSE offsets[i + 1]

\* the end (exclusive, 0-based) of the slice of iteration i
StringsTo(offsets, n, size, i) ==
    IF i = n THEN size ELSE offsets[i + 1]

\* the deobfuscation is forgotten
XorByte_Never(b, xor) == b

\* if xor > 0 { bytes[i] ^= xor }
XorByte(b, xor) == IF xor > 0 THEN Xor(b, xor) ELSE b

\* multiByteArray.Strings(xor).  The loop slices m.data per offset, XORs the
\* slice IN PLACE (bytes aliases m.data) when xor > 0 and copies it to a
\* string.  The iterations before the first faulting one take consecutive,
\* disjoint slices (each slice's bounds check forces offsets[i] <=
\* offsets[i+1] <= len), so record i is the XORed slice i and the blob is left
\* XORed on [offsets[0], end of the last slice taken).
\* Result: [res, strs, data] with data the blob after the call.
Strings(mm, xor) ==
    LET offsets == AsSeq(mm.offsets)
        data == AsSeq(mm.data)
        n == Len(offsets)
        size == Len(data)
        f == FirstFault(n, {i \in 1..n : ~StringsSliceOK(offsets, n, size, i)})
        done == f - 1
        lo == IF done = 0 THEN 0 ELSE offsets[1]
        hi == IF done = 0 THEN 0 ELSE StringsTo(offsets, n, size, done)
    IN  [res  |-> IF f = n + 1 THEN "ok" ELSE "panic",
         strs |-> IF f = n + 1
                  THEN AsSeq([i \in 1..n |->
                          [j \in 1..(StringsTo(offsets, n, size, i) - offsets[i]) |->
                              XorByte(data[offsets[i] + j], xor)]])
                  ELSE <<>>,
         data |-> AsSeq([j \in 1..size |->
                      IF lo < j /\ j <= hi THEN XorByte(data[j], xor)
                      ELSE data[j]])]

\* binary.LittleEndian.Uint16(m.data[i*2:]) for Go index i
LEUint16(data, i) == data[2 * i + 1] + ByteMod * data[2 * i + 2]

\* iteration i of U16's second loop over n offsets and words words: may the
\* slice of u16 be taken?
U16SliceOK(offsets, n, words, i) ==
    IF i = n
    THEN offsets[i] \div 2 <= words                       \* u16[offset/2:]
    ELSE /\ offsets[i] \div 2 <= offsets[i + 1] \div 2    \* u16[offset/2:to/2]
         /\ offsets[i + 1] \div 2 <= words

\* multiByteArray.U16(): the blob as len(data)/2 little-endian words, sliced
\* by the offsets halved with Go's integer division.
\* Result: [res, chunks]
U16(mm) ==
    LET offsets == AsSeq(mm.offsets)
        data == AsSeq(mm.data)
        n == Len(offsets)
        words == Len(data) \div 2
        u16 == AsSeq([i \in 1..words |-> LEUint16(data, i - 1)])
        f == FirstFault(n, {i \in 1..n : ~U16SliceOK(offsets, n, words, i)})
        to(i) == IF i = n THEN words ELSE offsets[i + 1] \div 2
    IN  [res    |-> IF f = n + 1 THEN "ok" ELSE "panic",
         chunks |-> IF f = n + 1
                    THEN AsSeq([i \in 1..n |->
                                  Slice(u16, offsets[i] \div 2, to(i))])
                    ELSE <<>>]

---------------------------------------------------------------------------
(* Level and joinLevels (script.go:164-173, 400-424)                       *)
(* A Go string is the sequence of its bytes; "" and a nil Sequence are     *)
(* the empty sequence.                                                     *)

\* the zero value of Level, as make([]Level, n) fills it
ZeroLevel ==
    [Name |-> <<>>, Path |-> <<>>, Chapter |-> <<>>, Flow |-> <<>>,
     IsDemo |-> FALSE,
     Puzzles |-> [k \in 1..4 |-> <<>>],
     Pickups |-> [k \in 1..2 |-> <<>>],
     Keys |-> [k \in 1..4 |-> <<>>]]

\* the demo list is read as 1-based level numbers
DemoMarked_OneBased(demos, n, i) ==
    \E k \in 1..Len(demos) : demos[k] < n /\ demos[k] = i + 1

\* for _, demo := range demos { if int(demo) < len(l) { l[demo].IsDemo = true } }
\* is level i (Go index) of n levels marked?
DemoMarked(demos, n, i) ==
    \E k \in 1..Len(demos) : demos[k] < n /\ demos[k] = i

\* joinLevels: one Level per name; Path, Chapter and Flow copied when the
\* table has the index (Flow from index i+1); then the demo marks
joinLevels(names, paths, chaps, flow, demos) ==
    LET ns == AsSeq(names)
        ps == AsSeq(paths)
        cs == AsSeq(chaps)
        fs == AsSeq(flow)
        n == Len(ns)
        np == Len(ps)
        nc == Len(cs)
        nf == Len(fs)
    IN  AsSeq([k \in 1..n |->
            LET i == k - 1
            IN  [ZeroLevel EXCEPT
                    !.Name = ns[k],
                    !.Path = IF i < np THEN ps[i + 1] ELSE <<>>,
                    !.Chapter = IF i < nc THEN cs[i + 1] ELSE <<>>,
                    !.Flow = IF i + 1 < nf THEN fs[i + 2] ELSE <<>>,
                    !.IsDemo = DemoMarked(demos, n, i)]])

---------------------------------------------------------------------------
(* The byte source and encoding/binary.Read as the package uses it         *)
(* The source r is s.bytes followed by s.pad zero bytes; pos counts the    *)
(* bytes consumed.  binary.Read(r, LittleEndian, &x) asks io.ReadFull for  *)
(* the size of x: when fewer bytes are left it consumes them, returns      *)
(* io.EOF (none left) or io.ErrUnexpectedEOF, and leaves x as it was (its  *)
(* zero value).  Every caller in the package drops the returned error.     *)

SrcLen(s) == Len(s.bytes) + s.pad

\* byte number p (1-based) of the source
SrcAt(s, p) == IF p <= Len(s.bytes) THEN s.bytes[p] ELSE 0

\* io.ReadFull of n bytes at pos: does it fill the buffer?
ReadFullOK(s, pos, n) == n = 0 \/ pos + n <= SrcLen(s)

\* the error io.ReadFull (and so binary.Read) returns
ReadFullErr(s, pos, n) ==
    IF ReadFullOK(s, pos, n) THEN "nil"
    ELSE IF pos >= SrcLen(s) THEN "EOF" ELSE "ErrUnexpectedEOF"

\* the position after io.ReadFull: a short read consumes what is left
ReadFullPos(s, pos, n) == IF ReadFullOK(s, pos, n) THEN pos + n ELSE SrcLen(s)

\* little-endian uint16 / uint32 at byte offset off (0-based) of bs
LE16(bs, off) == bs[off + 1] + ByteMod * bs[off + 2]

LE32(bs, off) == LE16(bs, off) + U16Mod * LE16(bs, off + 2)

\* little-endian uint16 at byte offset off (0-based) of the source
SrcLE16(s, off) == SrcAt(s, off + 1) + ByteMod * SrcAt(s, off + 2)

\* binary.Read into a []uint16 of length count (or a uint16 for count 1):
\* [err, vals, pos]; vals stays all zero on a short read
ReadU16s(s, pos, count) ==
    LET ok == ReadFullOK(s, pos, 2 * count)
    IN  [err  |-> ReadFullErr(s, pos, 2 * count),
         vals |-> AsSeq([k \in 1..count |->
                      IF ok THEN SrcLE16(s, pos + 2 * (k - 1)) ELSE 0]),
         pos  |-> ReadFullPos(s, pos, 2 * count)]

\* binary.Read into a []uint8 of length n
ReadU8s(s, pos, n) ==
    LET ok == ReadFullOK(s, pos, n)
    IN  [err  |-> ReadFullErr(s, pos, n),
         vals |-> AsSeq([k \in 1..n |-> IF ok THEN SrcAt(s, pos + k) ELSE 0]),
         pos  |-> ReadFullPos(s, pos, n)]

\* the errors binary.Read returned and the caller dropped
Dropped(errs) == SelectSeq(errs, LAMBDA e : e # "nil")

---------------------------------------------------------------------------
(* header and readHeader (script.go:254-287): byte offsets of the fields   *)
(* Read uses; binary.Read packs the struct without alignment padding.      *)

HeaderSize == 390

OffVersion == 0

OffDescription == 4

DescriptionLen == 256

OffNumLevels == 326

OffNumChapterScreens == 328

OffNumTitles == 330

OffNumFmvs == 332

OffNumCutscenes == 334

OffNumDemoLevels == 336

OffXorKey == 382

OffLanguageId == 383

\* header{}: every field zero
ZeroHeader ==
    [Version |-> 0, Description |-> [k \in 1..DescriptionLen |-> 0],
     NumLevels |-> 0, NumChapterScreens |-> 0, NumTitles |-> 0, NumFmvs |-> 0,
     NumCutscenes |-> 0, NumDemoLevels |-> 0, XorKey |-> 0, LanguageId |-> 0]

\* the fields of a header decoded from its HeaderSize bytes
DecodeHeader(bs) ==
    [Version |-> LE32(bs, OffVersion),
     Description |-> Slice(bs, OffDescription, OffDescription + DescriptionLen),
     NumLevels |-> LE16(bs, OffNumLevels),
     NumChapterScreens |-> LE16(bs, OffNumChapterScreens),
     NumTitles |-> LE16(bs, OffNumTitles),
     NumFmvs |-> LE16(bs, OffNumFmvs),
     NumCutscenes |-> LE16(bs, OffNumCutscenes),
     NumDemoLevels |-> LE16(bs, OffNumDemoLevels),
     XorKey |-> bs[OffXorKey + 1],
     LanguageId |-> bs[OffLanguageId + 1]]

\* readHeader: [h, pos, errs]
readHeader(s, pos) ==
    LET r == ReadU8s(s, pos, HeaderSize)
    IN  [h    |-> IF r.err = "nil" THEN DecodeHeader(r.vals) ELSE ZeroHeader,
         pos  |-> r.pos,
         errs |-> <<r.err>>]

---------------------------------------------------------------------------
(* readMultiByteArray and the readers built on it (script.go:345-398)      *)

\* readMultiByteArray(r, count): count offsets, the size, size bytes of blob
readMultiByteArray(s, pos, count) ==
    LET ro == ReadU16s(s, pos, count)
        rs == ReadU16s(s, ro.pos, 1)
        size == rs.vals[1]
        rb == ReadU8s(s, rs.pos, size)
    IN  [m    |-> newMultiByteArray(ro.vals, rb.vals),
         pos  |-> rb.pos,
         errs |-> <<ro.err, rs.err, rb.err>>]

\* readStringArray(r, count, xor): [res, val, pos, errs]
readStringArray(s, pos, count, xor) ==
    LET a == readMultiByteArray(s, pos, count)
        v == Strings(a.m, xor)
    IN  [res |-> v.res, val |-> v.strs, pos |-> a.pos, errs |-> a.errs]

\* readSequenceArray(r, count): [res, val, pos, errs]; the word view of the
\* table, then the scan of every chunk in order
readSequenceArray(s, pos, count) ==
    LET a == readMultiByteArray(s, pos, count)
        v == U16(a.m)
        chunks == v.chunks
        decs == AsSeq([k \in 1..Len(chunks) |-> DecodeChunk(chunks[k])])
        bad == v.res = "panic" \/ \E k \in 1..Len(decs) : decs[k].pc = "panic"
    IN  [res |-> IF bad THEN "panic" ELSE "ok",
         val |-> IF bad THEN <<>>
                 ELSE AsSeq([k \in 1..Len(decs) |-> decs[k].seq]),
         pos |-> a.pos, errs |-> a.errs]

\* readDemoLevels(r, count): [res, val, pos, errs]
readDemoLevels(s, pos, count) ==
    LET r == ReadU16s(s, pos, count)
    IN  [res |-> "ok", val |-> r.vals, pos |-> r.pos, errs |-> <<r.err>>]

\* readGameStrings(r, xor): the inline count, then a string table of it
readGameStrings(s, pos, xor) ==
    LET rc == ReadU16s(s, pos, 1)
        t == readStringArray(s, rc.pos, rc.vals[1], xor)
    IN  [res |-> t.res, val |-> t.val, pos |-> t.pos,
         errs |-> <<rc.err>> \o t.errs, count |-> rc.vals[1]]

---------------------------------------------------------------------------
(* Read (script.go:187-232), one step per call it makes                    *)

NumExtraStrings == 41

\* the calls of Read in program order; "puzzles", "pickups" and "keys" are
\* the three loops, "return" the Script literal
ReadOrder ==
    << "header", "levelNames", "chapterPaths", "titlePaths", "fmvPaths",
       "levelPaths", "cutscenePaths", "gameFlow", "demoLevels", "gameStrings",
       "extraStrings", "join", "puzzles", "pickups", "keys", "return", "done" >>

StepAfter(pc) ==
    ReadOrder[(CHOOSE k \in 1..Len(ReadOrder) : ReadOrder[k] = pc) + 1]

\* the steps that are one readStringArray call stored in a local
StringSteps ==
    {"levelNames", "chapterPaths", "titlePaths", "fmvPaths", "levelPaths",
     "cutscenePaths", "extraStrings"}

\* the count argument of the readStringArray call of a step
StringCount(step, head) ==
    CASE step = "levelNames" -> head.NumLevels
      [] step = "chapterPaths" -> head.NumChapterScreens
      [] step = "titlePaths" -> head.NumTitles
      [] step = "fmvPaths" -> head.NumFmvs
      [] step = "levelPaths" -> head.NumLevels
      [] step = "cutscenePaths" -> head.NumCutscenes
      [] step = "extraStrings" -> NumExtraStrings

\* head.NumLevels+1 in uint16 arithmetic
GameFlowCount(head) == (head.NumLevels + 1) % U16Mod

\* the iterations of the puzzles, pickups and keys loops
SlotCount(step) ==
    CASE step = "puzzles" -> 4 [] step = "pickups" -> 2 [] step = "keys" -> 4

SlotField(step) ==
    CASE step = "puzzles" -> "Puzzles" [] step = "pickups" -> "Pickups"
      [] step = "keys" -> "Keys"

\* A slice that a local of Read holds is kept as its length and the elements
\* that differ from the zero value of the element type (what make() fills
\* a slice with): Held packs a slice, SliceOf gives the slice back.
Held(s, zero) ==
    LET ss == AsSeq(s)
    IN  [len |-> Len(ss),
         at  |-> [i \in {j \in 1..Len(ss) : ss[j] # zero} |-> ss[i]]]

SliceOf(h, zero) ==
    LET at == h.at
        set == DOMAIN at
    IN  AsSeq([i \in 1..h.len |-> IF i \in set THEN at[i] ELSE zero])

\* a local not assigned yet (a nil slice)
NoSlice == [len |-> 0, at |-> <<>>]

\* the zero values of string and Sequence (both the empty sequence) and of
\* uint16
NoText == <<>>

NoWord == 0

\* the state of Read on entry
ReadStart ==
    [pc |-> "header", i |-> 0, pos |-> 0, head |-> ZeroHeader,
     levelNames |-> NoSlice, chapterPaths |-> NoSlice, titlePaths |-> NoSlice,
     fmvPaths |-> NoSlice, levelPaths |-> NoSlice, cutscenePaths |-> NoSlice,
     gameFlow |-> NoSlice, demoLevels |-> NoSlice, gameStrings |-> NoSlice,
     extraStrings |-> NoSlice, levels |-> NoSlice,
     log |-> <<>>, errs |-> <<>>, res |-> "running"]

\* what every step does to pc, pos, log, errs and res; r is the reader's
\* result [res, pos, errs], what/count the call it made
Stepped(st, r, entries, next) ==
    [st EXCEPT !.pos = r.pos,
               !.log = st.log \o entries,
               !.errs = st.errs \o Dropped(r.errs),
               !.pc = IF r.res = "ok" THEN next ELSE "panic",
               !.res = IF r.res = "ok" THEN st.res ELSE "panic"]

\* levels[j].<field>[i] = puzzles[j] for j < int(head.NumLevels)
ScatterOK(st, puzzles) ==
    st.head.NumLevels <= st.levels.len /\ st.head.NumLevels <= Len(puzzles)

Scatter(st, field, puzzles) ==
    LET levels == SliceOf(st.levels, ZeroLevel)
        texts == AsSeq(puzzles)
        count == st.head.NumLevels
        i == st.i
    IN  AsSeq([j \in 1..Len(levels) |->
            IF j <= count
            THEN [levels[j] EXCEPT ![field][i + 1] = texts[j]]
            ELSE levels[j]])

\* the Script literal of the return statement; Lang is not in it
ScriptOf(st) ==
    [Version |-> st.head.Version,
     Description |-> st.head.Description,
     Lang |-> 0,
     Levels |-> SliceOf(st.levels, ZeroLevel),
     Titles |-> SliceOf(st.titlePaths, NoText),
     Fmvs |-> SliceOf(st.fmvPaths, NoText),
     Cutscenes |-> SliceOf(st.cutscenePaths, NoText),
     GameStrings |-> SliceOf(st.gameStrings, NoText),
     ExtraStrings |-> SliceOf(st.extraStrings, NoText)]

---------------------------------------------------------------------------
(* Opcode.String and Script.FormatCommand (script.go:60-84, 143-148,       *)
(* 235-252).  A formatted string is the sequence of the pieces that        *)
(* fmt.Sprintf puts one after the other: Text for a display name or the    *)
(* literal text of the format, Bytes for the bytes of a Go string or of a  *)
(* number written in decimal.                                              *)

tOpcodes ==
    << "Picture", "List Start", "List End", "Display FMV", "Play Level",
       "Display Cutscene", "End Level", "Play Demo", "Jump to Sequence",
       "End Sequence", "Play Soundtrack", "Sunset", "Load Pic",
       "Deadly Water", "Remove Weapons", "Game Complete",
       "Set Cutscene Angle", "No Floor", "Start Inv", "Start Animation",
       "Secrets", "Kill to Complete", "Remove Ammo" >>

Text(t) == [text |-> t, bytes |-> <<>>]

Bytes(b) == [text |-> "", bytes |-> b]

\* %v of a uint16: its decimal digits, as ASCII bytes
RECURSIVE Digits(_)
Digits(n) == IF n < 10 THEN <<48 + n>> ELSE Digits(n \div 10) \o <<48 + (n % 10)>>

\* Opcode.String(): tOpcodes[o] when int(o) < len(tOpcodes); a negative o
\* passes the test and faults on the index
OpcodeStringOK(o) == o >= Len(tOpcodes) \/ o >= 0

OpcodeString(o) == IF o < Len(tOpcodes) THEN tOpcodes[o + 1] ELSE "Unknown"

\* fmt.Sprintf("%v %v", c.Op, c.Arg)
FormatRaw(c) == <<Text(OpcodeString(c.Op)), Text(" "), Bytes(Digits(c.Arg))>>

\* fmt.Sprintf("%v '%v'", c.Op, path)
FormatQuoted(c, path) ==
    <<Text(OpcodeString(c.Op)), Text(" '"), Bytes(path), Text("'")>>

\* the level looked up is the one after the argument
LevelAt_Next(s, arg) == s.Levels[Min(arg + 2, Len(s.Levels))]

\* s.Levels[c.Arg]
LevelAt(s, arg) == s.Levels[arg + 1]

\* may s.Levels[c.Arg], s.Fmvs[c.Arg], s.Cutscenes[c.Arg] be taken?
FormatIndexOK(s, c) ==
    CASE c.Op \in {OpLoadPic, OpLevel} -> c.Arg < Len(s.Levels)
      [] c.Op = OpFmv -> c.Arg < Len(s.Fmvs)
      [] c.Op = OpCine -> c.Arg < Len(s.Cutscenes)
      [] OTHER -> TRUE

\* Script.FormatCommand(c): [res, out]
FormatCommand(s, c) ==
    IF ~hasArg(c.Op)
    THEN IF OpcodeStringOK(c.Op)
         THEN [res |-> "ok", out |-> <<Text(OpcodeString(c.Op))>>]
         ELSE [res |-> "panic", out |-> <<>>]
    ELSE IF ~FormatIndexOK(s, c)
    THEN [res |-> "panic", out |-> <<>>]
    ELSE [res |-> "ok",
          out |-> CASE c.Op = OpLoadPic ->
                         FormatQuoted(c, LevelAt(s, c.Arg).Chapter)
                    [] c.Op = OpFmv -> FormatQuoted(c, s.Fmvs[c.Arg + 1])
                    [] c.Op = OpLevel ->
                         <<Text(OpcodeString(c.Op)), Text(" '"),
                           Bytes(LevelAt(s, c.Arg).Path), Text("' ("),
                           Bytes(LevelAt(s, c.Arg).Name), Text(")")>>
                    [] c.Op = OpCine -> FormatQuoted(c, s.Cutscenes[c.Arg + 1])
                    [] OTHER -> FormatRaw(c)]

---------------------------------------------------------------------------
(* Idle values of the variables a specification does not use               *)

IdleChunk == <<>>

IdleScan == [i |-> 0, seq |-> <<>>, at |-> <<>>, pc |-> "idle"]

IdleM == [offsets |-> <<>>, data |-> <<>>]

\* the call before the last one on m: [op, xor, out, res]
NoCall == [op |-> "none", xor |-> 0, out |-> <<>>, res |-> "none"]

IdleView ==
    [op |-> "none", xor |-> 0, before |-> <<>>, out |-> <<>>, res |-> "none",
     n |-> 0, prev |-> NoCall]

IdleJin == [names |-> <<>>, paths |-> <<>>, chaps |-> <<>>, flow |-> <<>>, demos |-> <<>>]

IdleJout == [called |-> FALSE, l |-> <<>>]

IdleSrc == [bytes |-> <<>>, pad |-> 0]

IdleRd == [pc |-> "idle"]

IdleFc == [called |-> FALSE]

---------------------------------------------------------------------------
(* SpecSeq: the instruction scan over every word list up to MaxWords       *)

InitSeq ==
    /\ chunk \in SeqsUpTo(SeqWords, MaxWords)
    /\ scan = ScanInit(chunk)
    /\ m = IdleM /\ view = IdleView /\ jin = IdleJin /\ jout = IdleJout
    /\ src = IdleSrc /\ rd = IdleRd /\ fc = IdleFc

ScanWord ==
    /\ scan.pc = "scan"
    /\ scan' = ScanStep(chunk, scan)
    /\ UNCHANGED <<chunk, m, view, jin, jout, src, rd, fc>>

NextSeq == ScanWord

SpecSeq == InitSeq /\ [][NextSeq]_vars

\* the argument-bearing opcodes, as the claims name them
ArgBearing ==
    {OpPicture, OpFmv, OpLevel, OpCine, OpDemo, OpJumpToSequence, OpTrack,
     OpLoadPic, OpCutAngle, OpNoFloor, OpStartInv, OpStartAnim, OpSecrets}

\* words the instruction at Go index p takes, by the static classification
WidthAt(p) == IF chunk[p + 1] \in ArgBearing THEN 2 ELSE 1

\* C1: every emitted instruction sits at a scan position; the first position
\* is 0 and each next one lies two words on after an argument-bearing opcode
\* and one word on otherwise; the instruction's Op is the word at its
\* position and its Arg the following word (0 for an opcode without
\* argument); a finished scan has consumed exactly all words; an argument
\* word is never the position of an instruction; and the scan only fails
\* when an argument-bearing opcode sits at the last word.
C1_ScanFollowsClassification ==
    LET n == Len(scan.seq)
    IN  /\ Len(scan.at) = n
        /\ \A k \in 1..n :
              /\ scan.at[k] = IF k = 1 THEN 0
                              ELSE scan.at[k - 1] + WidthAt(scan.at[k - 1])
              /\ scan.at[k] + WidthAt(scan.at[k]) <= Len(chunk)
              /\ scan.seq[k].Op = chunk[scan.at[k] + 1]
              /\ scan.seq[k].Arg = IF WidthAt(scan.at[k]) = 2
                                   THEN chunk[scan.at[k] + 2] ELSE 0
        /\ \A k, j \in 1..n :
              WidthAt(scan.at[k]) = 2 => scan.at[j] # scan.at[k] + 1
        /\ scan.pc \in {"scan", "done"} =>
              scan.i = IF n = 0 THEN 0 ELSE scan.at[n] + WidthAt(scan.at[n])
        /\ scan.pc = "scan" => scan.i < Len(chunk)
        /\ scan.pc = "done" => scan.i = Len(chunk)
        /\ scan.pc = "panic" =>
              /\ scan.i = Len(chunk)
              /\ chunk[Len(chunk)] \in ArgBearing
              /\ Len(chunk) - 1 = IF n = 0 THEN 0
                                  ELSE scan.at[n] + WidthAt(scan.at[n])

\* a finished scan of three words that emitted two instructions, the first
\* with an argument word that is itself an argument-bearing opcode value
C1_Witness ==
    /\ scan.pc = "done"
    /\ Len(chunk) = 3
    /\ Len(scan.seq) = 2
    /\ scan.seq[1] = [Op |-> OpTrack, Arg |-> OpLevel]
    /\ scan.seq[2] = [Op |-> OpEnd, Arg |-> 0]

\* the scan is over and its last scan position held an argument-bearing
\* opcode at the last word of the list
UnterminatedAtEnd ==
    /\ scan.pc \in {"done", "panic", "error"}
    /\ Len(chunk) > 0
    /\ chunk[Len(chunk)] \in ArgBearing
    /\ ~ \E k \in 1..Len(scan.at) :
            scan.at[k] = Len(chunk) - 2 /\ WidthAt(scan.at[k]) = 2

\* C2: an argument-bearing opcode at the last word ends the decoding in the
\* reported failure UnterminatedInstruction ("error"), not in a fault, and
\* no instruction is emitted for that opcode.
C2_UnterminatedIsReported ==
    UnterminatedAtEnd =>
        /\ scan.pc = "error"
        /\ \A k \in 1..Len(scan.at) : scan.at[k] # Len(chunk) - 1

---------------------------------------------------------------------------
(* SpecTable: the two views called on every small offset table             *)

MaxOffsets == 3

MaxData == 4

\* payload bytes and keys; the byte set is closed under XOR with the keys
TableBytes == {0, 65}

XorKeys == {0, 65}

\* calls made on one table
MaxCalls == 2

InitTable ==
    /\ \E offsets \in SeqsUpTo(0..MaxData, MaxOffsets),
          data \in SeqsUpTo(TableBytes, MaxData) :
          m = newMultiByteArray(offsets, data)
    /\ view = IdleView
    /\ chunk = IdleChunk /\ scan = IdleScan /\ jin = IdleJin /\ jout = IdleJout
    /\ src = IdleSrc /\ rd = IdleRd /\ fc = IdleFc

\* the last call, as the next call records it
LastCall == [op |-> view.op, xor |-> view.xor, out |-> view.out, res |-> view.res]

\* a call m.Strings(xor): the records (or the fault), and the blob it leaves
CallStrings ==
    /\ view.n < MaxCalls
    /\ \E xor \in XorKeys :
          LET r == Strings(m, xor)
          IN  /\ view' = [op |-> "Strings", xor |-> xor, before |-> m.data,
                          out |-> r.strs, res |-> r.res, n |-> view.n + 1,
                          prev |-> LastCall]
              /\ m' = [m EXCEPT !.data = r.data]
    /\ UNCHANGED <<chunk, scan, jin, jout, src, rd, fc>>

\* a call m.U16()
CallU16 ==
    /\ view.n < MaxCalls
    /\ LET r == U16(m)
       IN  view' = [op |-> "U16", xor |-> 0, before |-> m.data,
                    out |-> r.chunks, res |-> r.res, n |-> view.n + 1,
                    prev |-> LastCall]
    /\ UNCHANGED <<m, chunk, scan, jin, jout, src, rd, fc>>

NextTable == CallStrings \/ CallU16

SpecTable == InitTable /\ [][NextTable]_vars

RECURSIVE Flatten(_)
Flatten(ss) == IF ss = <<>> THEN <<>> ELSE Head(ss) \o Flatten(Tail(ss))

\* the bytes of a list of 16-bit words, little-endian
WordBytes(ws) ==
    [j \in 1..(2 * Len(ws)) |->
        IF j % 2 = 1 THEN ws[(j + 1) \div 2] % ByteMod
        ELSE ws[j \div 2] \div ByteMod]

NonDecreasing(offs) == \A i \in 1..(Len(offs) - 1) : offs[i] <= offs[i + 1]

WithinBlob(offs, blob) == \A i \in 1..Len(offs) : offs[i] <= Len(blob)

AllEven(offs) == \A i \in 1..Len(offs) : offs[i] % 2 = 0

\* the blob with the key applied to every byte
Keyed(blob, k) == [j \in 1..Len(blob) |-> Xor(blob[j], k)]

\* C3 as stated: for ANY offsets list of length N and ANY blob, the records
\* a view returns are exactly N and their bytes, concatenated, are the whole
\* blob (for the text view: the blob with the key applied).
C3_AnyTableRecordsCoverBlob ==
    /\ (view.op = "Strings" /\ view.res = "ok") =>
          /\ Len(view.out) = Len(m.offsets)
          /\ Flatten(view.out) = Keyed(view.before, view.xor)
    /\ (view.op = "U16" /\ view.res = "ok") =>
          /\ Len(view.out) = Len(m.offsets)
          /\ WordBytes(Flatten(view.out)) = view.before

\* the first record starts at the first byte of the blob (or there is no
\* byte at all)
StartsAtFirstByte(offs, blob) ==
    Len(blob) = 0 \/ (Len(offs) >= 1 /\ offs[1] = 0)

\* the first record starts at the first word of the blob (or there is no
\* byte at all)
StartsAtFirstWord(offs, blob) ==
    Len(blob) = 0 \/ (Len(offs) >= 1 /\ offs[1] \div 2 = 0)

\* C3 (amended): a view that returns, returns one record per offset.  The
\* text view returns on every table whose offsets do not decrease and lie
\* within the blob, the word view on every such table whose offsets are
\* even.  The records of a text view that returned, concatenated, are the
\* whole blob with the key applied (the blob itself for key 0) exactly when
\* the first record starts at the first byte of the blob; the words of a
\* word view that returned, concatenated low byte first, are the whole blob
\* exactly when the blob size is even and the first record starts at the
\* first word of the blob.
C3_RecordsFromStartCoverBlob ==
    /\ (view.op \in {"Strings", "U16"} /\ view.res = "ok") =>
          Len(view.out) = Len(m.offsets)
    /\ (/\ view.op \in {"Strings", "U16"}
        /\ NonDecreasing(m.offsets) /\ WithinBlob(m.offsets, view.before)
        /\ view.op = "U16" => AllEven(m.offsets)) =>
          view.res = "ok"
    /\ (view.op = "Strings" /\ view.res = "ok") =>
          (Flatten(view.out) = Keyed(view.before, view.xor)
              <=> StartsAtFirstByte(m.offsets, view.before))
    /\ (view.op = "U16" /\ view.res = "ok") =>
          (WordBytes(Flatten(view.out)) = view.before
              <=> /\ Len(view.before) % 2 = 0
                  /\ StartsAtFirstWord(m.offsets, view.before))

\* both views of one table of two records over a blob of two words: the
\* text view first (one word per record, then the bytes of both records are
\* the blob), then the word view, whose two one-word records are the blob
C3_Witness ==
    /\ m.offsets = <<0, 2>>
    /\ view.before = <<65, 0, 0, 65>>
    /\ view.prev.op = "Strings" /\ view.prev.xor = 0 /\ view.prev.res = "ok"
    /\ view.prev.out = << <<65, 0>>, <<0, 65>> >>
    /\ view.op = "U16" /\ view.res = "ok"
    /\ view.out = << <<65>>, <<16640>> >>

\* some slice bound of the table lies beyond the blob
BeyondBlob(offs, blob) == \E i \in 1..Len(offs) : offs[i] > Len(blob)

\* C7: with a slice bound beyond the blob, a view ends in a decode failure
\* reported to the caller ("error"): no fault, no shortened record.
C7_OutOfRangeIsReported ==
    (view.op \in {"Strings", "U16"} /\ BeyondBlob(m.offsets, view.before)) =>
        view.res = "error"

\* C8: on a table whose offsets do not decrease and lie within the blob,
\* record i of Strings(k) is the slice [offsets[i], offsets[i+1]) (to the end
\* of the blob for the last) of the blob as it was at the call, each byte
\* XORed with k once; XORing the record with k again gives the slice back;
\* with k = 0 the record is the slice.
C8_RecordsAreSliceXorKey ==
    (/\ view.op = "Strings"
     /\ NonDecreasing(m.offsets)
     /\ WithinBlob(m.offsets, view.before)) =>
        /\ view.res = "ok"
        /\ Len(view.out) = Len(m.offsets)
        /\ \A i \in 1..Len(m.offsets) :
              LET from == m.offsets[i]
                  to == IF i = Len(m.offsets) THEN Len(view.before)
                        ELSE m.offsets[i + 1]
                  rec == view.out[i]
              IN  /\ Len(rec) = to - from
                  /\ \A j \in 1..(to - from) :
                        /\ rec[j] = Xor(view.before[from + j], view.xor)
                        /\ Xor(rec[j], view.xor) = view.before[from + j]
                        /\ view.xor = 0 => rec[j] = view.before[from + j]

\* a keyed text view of two non-empty records
C8_Witness ==
    /\ view.op = "Strings"
    /\ view.xor = 65
    /\ view.res = "ok"
    /\ Len(view.out) = 2
    /\ view.out[1] = <<65>>
    /\ view.before = <<0, 65, 0>>
    /\ view.out[2] = <<0, 65>>

\* C10: an odd byte offset makes the word view end in a decode failure
\* ("error"); it is not halved with rounding.
C10_OddOffsetIsReported ==
    (view.op = "U16" /\ ~AllEven(m.offsets)) => view.res = "error"

---------------------------------------------------------------------------
(* SpecJoin: joinLevels on bounded arguments                               *)

MaxLevels == 2

MaxDemos == 2

\* n strings, distinct per index: <<tag, 1>>, <<tag, 2>>, ...
TextsOf(tag, n) == [k \in 1..n |-> <<tag, k>>]

\* n gameflow sequences, distinct per index
FlowsOf(n) ==
    [k \in 1..n |-> <<[Op |-> OpTrack, Arg |-> k], [Op |-> OpEnd, Arg |-> 0]>>]

\* demo-level indices: in range, just out of range, far out of range
DemoIndexes == (0..MaxLevels) \cup {99, U16Mod - 1}

InitJoin ==
    /\ \E nn \in 0..MaxLevels, np \in 0..MaxLevels, nc \in 0..MaxLevels,
          nf \in 0..(MaxLevels + 1),
          demos \in SeqsUpTo(DemoIndexes, MaxDemos) :
          jin = [names |-> TextsOf(78, nn), paths |-> TextsOf(80, np),
                 chaps |-> TextsOf(67, nc), flow |-> FlowsOf(nf),
                 demos |-> demos]
    /\ jout = IdleJout
    /\ chunk = IdleChunk /\ scan = IdleScan /\ m = IdleM /\ view = IdleView
    /\ src = IdleSrc /\ rd = IdleRd /\ fc = IdleFc

CallJoin ==
    /\ ~jout.called
    /\ jout' = [called |-> TRUE,
                l |-> joinLevels(jin.names, jin.paths, jin.chaps, jin.flow, jin.demos)]
    /\ UNCHANGED <<chunk, scan, m, view, jin, src, rd, fc>>

NextJoin == CallJoin

SpecJoin == InitJoin /\ [][NextJoin]_vars

InRangeDemo(d) == d < Len(jin.names)

\* C5: joinLevels returns one Level per name, with IsDemo true exactly for
\* the levels whose index is in the demo list; the out-of-range indices of
\* the list change no level: the result is the one of the list without them.
C5_DemoMarksExactlyListed ==
    jout.called =>
        /\ Len(jout.l) = Len(jin.names)
        /\ \A i \in 0..(Len(jin.names) - 1) :
              jout.l[i + 1].IsDemo <=>
                  (\E k \in 1..Len(jin.demos) : jin.demos[k] = i)
        /\ jout.l = joinLevels(jin.names, jin.paths, jin.chaps, jin.flow,
                               SelectSeq(jin.demos, InRangeDemo))

\* two levels, the demo list names level 1 and the out-of-range index 99
C5_Witness ==
    /\ jout.called
    /\ jin.demos = <<1, 99>>
    /\ Len(jout.l) = 2
    /\ jout.l[2].IsDemo
    /\ ~jout.l[1].IsDemo

---------------------------------------------------------------------------
(* Script files for Read: the layout readHeader and the table readers      *)
(* consume, filled from a few parameters                                   *)

EncU16(w) == <<w % ByteMod, w \div ByteMod>>

RECURSIVE SumLen(_, _)
SumLen(ss, k) == IF k = 0 THEN 0 ELSE Len(ss[k]) + SumLen(ss, k - 1)

\* the offsets of the records ss, in units of unit bytes per element
OffsetsOf(ss, unit) == [i \in 1..Len(ss) |-> unit * SumLen(ss, i - 1)]

\* [N offsets][size][payload], the payload obfuscated with key
EncStringTable(recs, key) ==
    WordBytes(OffsetsOf(recs, 1)) \o EncU16(SumLen(recs, Len(recs)))
        \o Keyed(Flatten(recs), key)

EncWordTable(chunks) ==
    WordBytes(OffsetsOf(chunks, 2)) \o EncU16(2 * SumLen(chunks, Len(chunks)))
        \o WordBytes(Flatten(chunks))

\* the HeaderSize bytes of a header; 170 fills the fields Read does not use
EncHeader(h) ==
    [j \in 1..HeaderSize |->
        LET p == j - 1
            lo(w) == w % ByteMod
            hi(w) == (w \div ByteMod) % ByteMod
            w16(off, w) == IF p = off THEN lo(w) ELSE hi(w)
        IN  CASE p \in OffVersion..(OffVersion + 1) -> w16(OffVersion, h.Version % U16Mod)
              [] p \in (OffVersion + 2)..(OffVersion + 3) ->
                    w16(OffVersion + 2, h.Version \div U16Mod)
              [] p \in OffDescription..(OffDescription + DescriptionLen - 1) ->
                    h.Description[p - OffDescription + 1]
              [] p \in OffNumLevels..(OffNumLevels + 1) -> w16(OffNumLevels, h.NumLevels)
              [] p \in OffNumChapterScreens..(OffNumChapterScreens + 1) ->
                    w16(OffNumChapterScreens, h.NumChapterScreens)
              [] p \in OffNumTitles..(OffNumTitles + 1) -> w16(OffNumTitles, h.NumTitles)
              [] p \in OffNumFmvs..(OffNumFmvs + 1) -> w16(OffNumFmvs, h.NumFmvs)
              [] p \in OffNumCutscenes..(OffNumCutscenes + 1) ->
                    w16(OffNumCutscenes, h.NumCutscenes)
              [] p \in OffNumDemoLevels..(OffNumDemoLevels + 1) ->
                    w16(OffNumDemoLevels, h.NumDemoLevels)
              [] p = OffXorKey -> h.XorKey
              [] p = OffLanguageId -> h.LanguageId
              [] OTHER -> 170]

\* "TR" and zero bytes
FileDescription ==
    [k \in 1..DescriptionLen |-> IF k = 1 THEN 84 ELSE IF k = 2 THEN 82 ELSE 0]

FileHeader(nl, nc, key, nd) ==
    [Version |-> 66051, Description |-> FileDescription,
     NumLevels |-> nl, NumChapterScreens |-> nc, NumTitles |-> 1, NumFmvs |-> 1,
     NumCutscenes |-> 1, NumDemoLevels |-> nd, XorKey |-> key, LanguageId |-> 2]

\* n gameflow chunks: the leading one, then one per level; with "open" the
\* last chunk ends in an argument-bearing opcode
FlowChunks(n, kind) ==
    [k \in 1..n |->
        IF k = n /\ kind = "open" THEN <<OpEnd, OpTrack>>
        ELSE IF k = 1 THEN <<OpEnd>>
        ELSE <<OpTrack, 30 + k, OpLevel, k - 2, OpEnd>>]

ExtraTexts == [k \in 1..NumExtraStrings |-> IF k = 1 THEN <<69>> ELSE <<>>]

\* a whole script file of nl levels
FileBytes(nl, nc, key, demos, kind) ==
    EncHeader(FileHeader(nl, nc, key, Len(demos)))
        \o EncStringTable(TextsOf(78, nl), key)
        \o EncStringTable(TextsOf(67, nc), key)
        \o EncStringTable(TextsOf(84, 1), key)
        \o EncStringTable(TextsOf(70, 1), key)
        \o EncStringTable(TextsOf(80, nl), key)
        \o EncStringTable(TextsOf(88, 1), key)
        \o EncWordTable(FlowChunks(nl + 1, kind))
        \o WordBytes(demos)
        \o EncU16(1) \o EncStringTable(TextsOf(71, 1), key)
        \o EncStringTable(ExtraTexts, key)
        \o EncStringTable(TextsOf(101, nl), key) \o EncStringTable(TextsOf(102, nl), key)
        \o EncStringTable(TextsOf(103, nl), key) \o EncStringTable(TextsOf(104, nl), key)
        \o EncStringTable(TextsOf(111, nl), key) \o EncStringTable(TextsOf(112, nl), key)
        \o EncStringTable(TextsOf(121, nl), key) \o EncStringTable(TextsOf(122, nl), key)
        \o EncStringTable(TextsOf(123, nl), key) \o EncStringTable(TextsOf(124, nl), key)

\* a file of U16Mod-1 levels with empty names and tables: its header, then
\* zero bytes for every offset, size and count that Read asks for
BigHeader == FileHeader(U16Mod - 1, 0, 0, 0)

BigPad ==
    12 * (2 * (U16Mod - 1) + 2) + 3 * 4 + 2 * 2 + 4 + (2 * NumExtraStrings + 2)

\* bytes past the header at which a file is cut
MaxCut == 10

\* the bytes of one puzzles, pickups or keys table of a file of nl levels
SlotTableLen(nl) == Len(EncStringTable(TextsOf(101, nl), 0))

\* the lengths at which a file of length n and nl levels ends just after the
\* offsets of its slot table k (0-3 puzzles, 4-5 pickups, 6-9 keys): the
\* size word and the payload of that table are missing
SlotCuts(n, nl) == {n - (10 - k) * SlotTableLen(nl) + 2 * nl : k \in {0, 5, 9}}

\* the lengths a file of length n and nl levels is cut to (n: not cut)
CutPoints(n, nl) ==
    {n, n - 1, n - 2, 0, 200} \cup {HeaderSize + k : k \in 0..MaxCut}
        \cup SlotCuts(n, nl)

---------------------------------------------------------------------------
(* Spec: Read over whole and truncated script files                        *)

Init ==
    /\ \/ \E nl \in 0..MaxLevels, nc \in 0..1, key \in XorKeys,
             demos \in SeqsUpTo({0, 99}, 1), kind \in {"closed", "open"} :
             LET file == FileBytes(nl, nc, key, demos, kind)
             IN  \E cut \in CutPoints(Len(file), nl) :
                    src = [bytes |-> SubSeq(file, 1, cut), pad |-> 0]
       \/ src = [bytes |-> EncHeader(BigHeader), pad |-> BigPad]
    /\ rd = ReadStart /\ fc = IdleFc
    /\ chunk = IdleChunk /\ scan = IdleScan /\ m = IdleM /\ view = IdleView
    /\ jin = IdleJin /\ jout = IdleJout

\* head := readHeader(r)
DoReadHeader ==
    /\ rd.pc = "header"
    /\ LET r == readHeader(src, rd.pos)
       IN  rd' = [Stepped(rd, [res |-> "ok", pos |-> r.pos, errs |-> r.errs],
                          <<[what |-> "header", count |-> 1]>>, StepAfter(rd.pc))
                    EXCEPT !.head = r.h]
    /\ UNCHANGED <<chunk, scan, m, view, jin, jout, src, fc>>

\* x := readStringArray(r, count, head.XorKey) for the seven string tables
DoReadStringArray ==
    /\ rd.pc \in StringSteps
    /\ LET count == StringCount(rd.pc, rd.head)
           r == readStringArray(src, rd.pos, count, rd.head.XorKey)
       IN  rd' = [Stepped(rd, r, <<[what |-> rd.pc, count |-> count]>>, StepAfter(rd.pc))
                    EXCEPT ![rd.pc] = Held(r.val, NoText)]
    /\ UNCHANGED <<chunk, scan, m, view, jin, jout, src, fc>>

\* gameFlow := readSequenceArray(r, head.NumLevels+1)
DoReadSequenceArray ==
    /\ rd.pc = "gameFlow"
    /\ LET count == GameFlowCount(rd.head)
           r == readSequenceArray(src, rd.pos, count)
       IN  rd' = [Stepped(rd, r, <<[what |-> "gameFlow", count |-> count]>>, StepAfter(rd.pc))
                    EXCEPT !.gameFlow = Held(r.val, NoText)]
    /\ UNCHANGED <<chunk, scan, m, view, jin, jout, src, fc>>

\* demoLevels := readDemoLevels(r, head.NumDemoLevels)
DoReadDemoLevels ==
    /\ rd.pc = "demoLevels"
    /\ LET r == readDemoLevels(src, rd.pos, rd.head.NumDemoLevels)
       IN  rd' = [Stepped(rd, r, <<[what |-> "demoLevels", count |-> rd.head.NumDemoLevels]>>,
                          StepAfter(rd.pc))
                    EXCEPT !.demoLevels = Held(r.val, NoWord)]
    /\ UNCHANGED <<chunk, scan, m, view, jin, jout, src, fc>>

\* gameStrings := readGameStrings(r, head.XorKey)
DoReadGameStrings ==
    /\ rd.pc = "gameStrings"
    /\ LET r == readGameStrings(src, rd.pos, rd.head.XorKey)
       IN  rd' = [Stepped(rd, r, <<[what |-> "gameStringsCount", count |-> 1],
                                   [what |-> "gameStrings", count |-> r.count]>>,
                          StepAfter(rd.pc))
                    EXCEPT !.gameStrings = Held(r.val, NoText)]
    /\ UNCHANGED <<chunk, scan, m, view, jin, jout, src, fc>>

\* levels := joinLevels(levelNames, levelPaths, chapterPaths, gameFlow, demoLevels)
DoJoinLevels ==
    /\ rd.pc = "join"
    /\ rd' = [rd EXCEPT !.levels = Held(joinLevels(SliceOf(rd.levelNames, NoText),
                                                    SliceOf(rd.levelPaths, NoText),
                                                    SliceOf(rd.chapterPaths, NoText),
                                                    SliceOf(rd.gameFlow, NoText),
                                                    SliceOf(rd.demoLevels, NoWord)),
                                         ZeroLevel),
                        !.pc = StepAfter(rd.pc)]
    /\ UNCHANGED <<chunk, scan, m, view, jin, jout, src, fc>>

\* one iteration of the puzzles, pickups or keys loop; i++ runs only when
\* the body has not panicked, and the next loop starts again with i := 0
DoReadSlots ==
    /\ rd.pc \in {"puzzles", "pickups", "keys"}
    /\ LET count == rd.head.NumLevels
           r == readStringArray(src, rd.pos, count, rd.head.XorKey)
           ok == r.res = "ok" /\ ScatterOK(rd, r.val)
           last == rd.i + 1 = SlotCount(rd.pc)
       IN  rd' = [Stepped(rd, [res |-> IF ok THEN "ok" ELSE "panic",
                               pos |-> r.pos, errs |-> r.errs],
                          <<[what |-> rd.pc, count |-> count]>>,
                          IF last THEN StepAfter(rd.pc) ELSE rd.pc)
                    EXCEPT !.levels = IF ok THEN Held(Scatter(rd, SlotField(rd.pc), r.val),
                                                      ZeroLevel)
                                      ELSE rd.levels,
                           !.i = IF ~ok THEN rd.i
                                 ELSE IF last THEN 0 ELSE rd.i + 1]
    /\ UNCHANGED <<chunk, scan, m, view, jin, jout, src, fc>>

\* return &Script{...}: the Script returned is ScriptOf(rd)
DoReturn ==
    /\ rd.pc = "return"
    /\ rd' = [rd EXCEPT !.res = "ok", !.pc = StepAfter(rd.pc)]
    /\ UNCHANGED <<chunk, scan, m, view, jin, jout, src, fc>>

Next ==
    \/ DoReadHeader
    \/ DoReadStringArray
    \/ DoReadSequenceArray
    \/ DoReadDemoLevels
    \/ DoReadGameStrings
    \/ DoJoinLevels
    \/ DoReadSlots
    \/ DoReturn

Spec == Init /\ [][Next]_vars

---------------------------------------------------------------------------
(* Claims about Read                                                       *)

\* Read has returned; its result is the Script ScriptOf(rd)
Returned == rd.res = "ok" /\ rd.pc = "done"

\* C4: after Read assembles a Script, it has one Level per decoded level
\* name, and the Flow of the level of index i is the decoded gameflow
\* sequence of index i+1 (so the sequence of index 0 goes to no level).
C4_FlowIsNextSequence ==
    Returned =>
        LET levels == ScriptOf(rd).Levels
            gameFlow == SliceOf(rd.gameFlow, NoText)
        IN  /\ Len(levels) = rd.levelNames.len
            /\ \A k \in 1..Len(levels) :
                  /\ k + 1 <= Len(gameFlow)
                  /\ levels[k].Flow = gameFlow[k + 1]

\* C6: when the source ends before a read is satisfied, Read fails with
\* TruncatedInput at that step: it takes no further step, fills nothing
\* with zeros and returns no Script.
C6_TruncationIsReported ==
    rd.errs # <<>> =>
        /\ rd.res = "TruncatedInput"
        /\ rd.pc = "done"
        /\ Len(rd.errs) = 1

\* the reads the order of C9 asks for, for a header and the game-strings
\* count read inline
ReadsInOrder(head, strings) ==
    LET one(what, count) == <<[what |-> what, count |-> count]>>
        rep(what, times) == [k \in 1..times |->
                                [what |-> what, count |-> head.NumLevels]]
    IN  one("header", 1)
        \o one("levelNames", head.NumLevels)
        \o one("chapterPaths", head.NumChapterScreens)
        \o one("titlePaths", head.NumTitles)
        \o one("fmvPaths", head.NumFmvs)
        \o one("levelPaths", head.NumLevels)
        \o one("cutscenePaths", head.NumCutscenes)
        \o one("gameFlow", head.NumLevels + 1)
        \o one("demoLevels", head.NumDemoLevels)
        \o one("gameStringsCount", 1)
        \o one("gameStrings", strings)
        \o one("extraStrings", NumExtraStrings)
        \o rep("puzzles", 4) \o rep("pickups", 2) \o rep("keys", 4)

\* C9: in every run of Read the reads made so far are the first reads of
\* the order header, level names, chapter-screen paths, title paths, FMV
\* paths, level paths, cutscene paths, gameflow (levelCount+1 records),
\* demo levels (demoLevelCount words), game-strings count and table,
\* extra strings (41), 4 puzzle, 2 pickup and 4 key tables (levelCount
\* records each); a run that returns has made all of them.
C9_ReadsFollowTheOrder ==
    LET n == Len(rd.log)
        strings == IF n >= 11 THEN rd.log[11].count ELSE 0
        want == ReadsInOrder(rd.head, strings)
    IN  /\ n <= Len(want)
        /\ \A k \in 1..n : rd.log[k] = want[k]
        /\ Returned => n = Len(want) /\ rd.gameStrings.len = strings

---------------------------------------------------------------------------
(* SpecFormat: one call of Script.FormatCommand on a Script with up to     *)
(* MaxTable levels, FMVs and cutscenes                                     *)

MaxTable == 2

\* the opcodes a decoded gameflow word can be: every named one, two past
\* the display names, and two large words
FormatOps == (0..24) \cup {42, U16Mod - 1}

\* arguments in range of a table, just past its end and far past it
FormatArgs == (0..MaxTable) \cup {300, U16Mod - 1}

\* a Script of nl levels, nf FMVs and nc cutscenes, distinct texts per index
ScriptWith(nl, nf, nc) ==
    [Version |-> 0, Description |-> <<>>, Lang |-> 0,
     Levels |-> joinLevels(TextsOf(78, nl), TextsOf(80, nl), TextsOf(67, nl),
                           FlowsOf(nl + 1), <<>>),
     Titles |-> <<>>,
     Fmvs |-> TextsOf(70, nf),
     Cutscenes |-> TextsOf(88, nc),
     GameStrings |-> <<>>,
     ExtraStrings |-> <<>>]

InitFormat ==
    /\ \E nl \in 0..MaxTable, nf \in 0..MaxTable, nc \in 0..MaxTable,
          op \in FormatOps, arg \in FormatArgs :
          fc = [called |-> FALSE, s |-> ScriptWith(nl, nf, nc),
                c |-> [Op |-> op, Arg |-> arg]]
    /\ chunk = IdleChunk /\ scan = IdleScan /\ m = IdleM /\ view = IdleView
    /\ jin = IdleJin /\ jout = IdleJout /\ src = IdleSrc /\ rd = IdleRd

\* out := s.FormatCommand(c); s and c are passed by value and only read
CallFormat ==
    /\ ~fc.called
    /\ LET r == FormatCommand(fc.s, fc.c)
       IN  fc' = [called |-> TRUE, s |-> fc.s, c |-> fc.c,
                  res |-> r.res, out |-> r.out]
    /\ UNCHANGED <<chunk, scan, m, view, jin, jout, src, rd>>

NextFormat == CallFormat

SpecFormat == InitFormat /\ [][NextFormat]_vars

\* the display name of an opcode: its entry in the name table, "Unknown"
\* past the table
DisplayName(op) == IF op + 1 \in DOMAIN tOpcodes THEN tOpcodes[op + 1] ELSE "Unknown"

\* the number a sequence of ASCII digits writes
RECURSIVE Number(_)
Number(ds) ==
    IF ds = <<>> THEN 0
    ELSE 10 * Number(SubSeq(ds, 1, Len(ds) - 1)) + (ds[Len(ds)] - 48)

\* the argument of the instruction is in range of the table it refers to
ArgInRange ==
    CASE fc.c.Op \in {OpLoadPic, OpLevel} -> fc.c.Arg < Len(fc.s.Levels)
      [] fc.c.Op = OpFmv -> fc.c.Arg < Len(fc.s.Fmvs)
      [] fc.c.Op = OpCine -> fc.c.Arg < Len(fc.s.Cutscenes)
      [] OTHER -> TRUE

\* C11: for an instruction whose argument is in range, FormatCommand
\* returns the display name alone for an opcode without argument; name and
\* chapter path of level[arg] for load-picture; name and FMV path for
\* display-FMV; name, path and name of level[arg] for play-level; name and
\* cutscene path for display-cutscene; name and the argument in decimal for
\* every other argument-bearing opcode.  The call changes neither the
\* Script nor the instruction.
C11_FormatByOpcode ==
    [][CallFormat /\ ArgInRange =>
        LET op == fc.c.Op
            arg == fc.c.Arg
            out == fc'.out
            name == Text(DisplayName(op))
        IN  /\ fc'.res = "ok"
            /\ fc'.s = fc.s /\ fc'.c = fc.c
            /\ out[1] = name
            /\ CASE op \notin ArgBearing -> Len(out) = 1
                 [] op = OpLoadPic ->
                      out = <<name, Text(" '"),
                              Bytes(fc.s.Levels[arg + 1].Chapter), Text("'")>>
                 [] op = OpFmv ->
                      out = <<name, Text(" '"), Bytes(fc.s.Fmvs[arg + 1]), Text("'")>>
                 [] op = OpLevel ->
                      out = <<name, Text(" '"), Bytes(fc.s.Levels[arg + 1].Path),
                              Text("' ("), Bytes(fc.s.Levels[arg + 1].Name),
                              Text(")")>>
                 [] op = OpCine ->
                      out = <<name, Text(" '"), Bytes(fc.s.Cutscenes[arg + 1]),
                              Text("'")>>
                 [] OTHER ->
                      /\ Len(out) = 3 /\ out[2] = Text(" ")
                      /\ out[3].text = "" /\ Number(out[3].bytes) = arg]_vars

\* play-level of the second of two levels has been formatted
C11_Witness ==
    /\ fc.called /\ fc.res = "ok"
    /\ fc.c = [Op |-> OpLevel, Arg |-> 1]
    /\ Len(fc.s.Levels) = 2
    /\ fc.out[3] = Bytes(<<80, 2>>) /\ fc.out[5] = Bytes(<<78, 2>>)

\* an instruction that indexes a table at or past its end
ArgOutOfRange ==
    /\ fc.c.Op \in {OpLoadPic, OpLevel, OpFmv, OpCine}
    /\ ~ArgInRange

\* C12: when the argument of a load-picture, play-level, display-FMV or
\* display-cutscene instruction is at or past the end of the table it
\* indexes, FormatCommand reports the failure IndexOutOfRange to its
\* caller: no unhandled fault and no formatted string.
C12_OutOfRangeIsReported ==
    (fc.called /\ ArgOutOfRange) => fc.res = "IndexOutOfRange" /\ fc.out = <<>>

---------------------------------------------------------------------------
(* Further claims about Read and the text view                             *)

\* C13: the Script Read returns carries the header's format version,
\* description text and language: Version, Description and Lang equal the
\* header's Version, Description and LanguageId.
C13_ScriptCarriesHeader ==
    Returned =>
        /\ ScriptOf(rd).Version = rd.head.Version
        /\ ScriptOf(rd).Description = rd.head.Description
        /\ ScriptOf(rd).Lang = rd.head.LanguageId

\* C14: the text view only reads the table: after a call of Strings that
\* returned, for any key, the payload blob is what it was before the call
\* (so a second call, or a U16 call, sees the original bytes).
C14_StringsLeavesBlob ==
    (view.op = "Strings" /\ view.res = "ok") => m.data = view.before

\* C15: for every header level count 0..65535 the gameflow read asks for
\* exactly levelCount+1 records; the count never wraps modulo 2^16.
C15_GameFlowCountNeverWraps ==
    \A k \in 1..Len(rd.log) :
        rd.log[k].what = "gameFlow" => rd.log[k].count = rd.head.NumLevels + 1

===========================================================================
